---- MODULE Spec2Model ----
(***************************************************************************)
(* A state-machine model of fg-dynamic-component: the FGDynamicService     *)
(* registry and the FGDynamicComponent node (<fg-dynamic>), which resolves  *)
(* a component type, creates it, binds inputs / outputs / attributes to a   *)
(* view model and registers a form control in a form group.                 *)
(*                                                                         *)
(* Three versions of the component are modelled, selected by `variant`:    *)
(*   "lib"  : src/projects/fg-dynamic-component/src/lib/                    *)
(*            fg-dynamic.component.ts     (modelProperty / disabled / ...)  *)
(*   "attr" : src/unnamed/part_000, lines 1-441 (attributes.name / ...)     *)
(*   "third": src/unnamed/part_000, lines 443-758: the statements of "lib"  *)
(*            with the settings of "attr" (attributes.name / ...)           *)
(***************************************************************************)
EXTENDS Integers, Sequences, FiniteSets, TLC

(***************************************************************************)
(* JavaScript values.  Every value is a sequence of tokens.  A string is   *)
(* the sequence of its tokens (maximal runs of name characters, and the    *)
(* separators between them); every other value starts with a tag token.    *)
(***************************************************************************)
Tags == {"#undefined", "#null", "#bool", "#num", "#type", "#promise", "#fn", "#obj",
         "#pending", "#rejected", "#regexp", "#notcalled", "#mixed"}

UNDEFINED == <<"#undefined">>

NULL == <<"#null">>

OBJECT == <<"#obj">>

PENDING == <<"#pending">>

REJECTED == <<"#rejected">>

Bool(b) == <<"#bool", IF b THEN "true" ELSE "false">>

Num(digits) == <<"#num", digits>>

Str(s) == <<s>>

Type(t) == <<"#type", t>>

PromiseOf(p) == <<"#promise", p>>

Fn(f) == <<"#fn", f>>

RegExp(source) == <<"#regexp", source>>

\* typeof(v) === 'string'
IsString(v) == Len(v) = 0 \/ Head(v) \notin Tags

\* v == null
IsNullish(v) == v \in {UNDEFINED, NULL}

\* the falsy values: "", undefined, null, 0, false
Truthy(v) == v \notin {<<>>, UNDEFINED, NULL, Num("0"), Bool(FALSE)}

IsType(v) == Len(v) = 2 /\ Head(v) = "#type"

IsPromise(v) == Len(v) = 2 /\ Head(v) = "#promise"

\* a plain (non-class) function
IsFn(v) == Len(v) = 2 /\ Head(v) = "#fn"

\* v instanceof Function: classes are functions too
IsFunction(v) == IsFn(v) \/ IsType(v)

\* typeof(v) === 'number'
IsNumber(v) == Len(v) = 2 /\ Head(v) = "#num"

\* v instanceof RegExp
IsRegExp(v) == Len(v) = 2 /\ Head(v) = "#regexp"

\* the number a numeral of the model denotes
NumberOf(digits) ==
    CASE digits = "0" -> 0
      [] digits = "3" -> 3
      [] digits = "20" -> 20
      [] digits = "-1" -> -1

\* v > 0, with the operand converted to a number: true is 1, and undefined and
\* the (non-numeric) strings of the model are NaN, which compares false
GreaterThanZero(v) ==
    IF IsNumber(v) THEN NumberOf(v[2]) > 0 ELSE v = Bool(TRUE)

\* value.includes(tok), for a string value
Includes(v, tok) == \E i \in 1..Len(v) : v[i] = tok

\* a[k] of a JavaScript object held as a function from property names
Prop(obj, k) == IF k \in DOMAIN obj THEN obj[k] ELSE UNDEFINED

RemoveAt(s, i) == SubSeq(s, 1, i - 1) \o SubSeq(s, i + 1, Len(s))

(***************************************************************************)
(* Objects.  A JavaScript value with properties is a tree: a function from *)
(* paths (sequences of property keys, each key a string value) to the      *)
(* value at that path; the root <<>> holds OBJECT for an object, or the    *)
(* primitive itself.  structuredClone of a tree is the same tree.          *)
(***************************************************************************)
At(tree, path) == IF path \in DOMAIN tree THEN tree[path] ELSE UNDEFINED

Leaf(v) == <<>> :> v

\* an object with the given top-level properties (property name -> primitive)
Obj(props) == Leaf(OBJECT) @@ [p \in {<<Str(k)>> : k \in DOMAIN props} |-> props[p[1][1]]]

IsPrefix(p, q) == Len(p) <= Len(q) /\ SubSeq(q, 1, Len(p)) = p

\* tree with the whole subtree at `path` replaced by the primitive v
SetLeaf(tree, path, v) ==
    [q \in {r \in DOMAIN tree : ~IsPrefix(path, r)} \cup {path} |->
        IF q = path THEN v ELSE tree[q]]

\* String(v), as the DOM does for an attribute value: a RegExp gives its source
\* between slashes, a promise "[object Promise]", a class or a function the
\* text of its source, which the values of the model do not carry and which
\* is kept as one token naming the value
ToStr(v) ==
    IF IsString(v) THEN v
    ELSE IF Head(v) \in {"#num", "#bool"} THEN Tail(v)
    ELSE IF v = UNDEFINED THEN <<"undefined">>
    ELSE IF v = NULL THEN <<"null">>
    ELSE IF v = OBJECT THEN <<"[object Object]">>
    ELSE IF IsRegExp(v) THEN <<"/", v[2], "/">>
    ELSE IF IsPromise(v) THEN <<"[object Promise]">>
    ELSE <<"source text of ", v[2]>>

(***************************************************************************)
(* Expressions.  The strings handed to eval are of four shapes:            *)
(*   $vm().k                        reads property k of the view model     *)
(*   $vm.update(vm => ({...vm, k: $event}))   writes $event to property k   *)
(*   log($event)                    a statement, whose value is undefined  *)
(*   $vm.update(viewModel => { ...viewModel, message: $event, ... })       *)
(*                                  the text of the README: the braces are *)
(*                                  a function body, eval throws a         *)
(*                                  SyntaxError and nothing is written     *)
(***************************************************************************)
ReadExpr(k) == <<"$vm", "()", ".", k>>

UpdateExpr(k) == <<"$vm", ".", "update", "(", k, ":", "$event", ")">>

LogExpr == <<"log", "(", "$event", ")">>

ReadmeUpdateExpr ==
    <<"$vm", ".", "update", "(", "viewModel", " => ", "{", " ", "...", "viewModel", ", ",
      "message", ": ", "$event", ", ", "count", ": ", "viewModel", ".", "count", " + ",
      "1", " ", "}", ")">>

\* eval(e) throws
EvalThrows(e) == e = ReadmeUpdateExpr

IsReadExpr(e) == Len(e) = 4 /\ SubSeq(e, 1, 3) = <<"$vm", "()", ".">>

IsUpdateExpr(e) == Len(e) = 8 /\ SubSeq(e, 1, 4) = <<"$vm", ".", "update", "(">>

\* the value of eval(e)
Eval(e, vm, event) == IF IsReadExpr(e) THEN At(vm, <<Str(e[4])>>) ELSE UNDEFINED

\* the view model after eval(e)
EvalEffect(e, vm, event) ==
    IF IsUpdateExpr(e)
    THEN SetLeaf(IF At(vm, <<>>) = OBJECT THEN vm ELSE Leaf(OBJECT), <<Str(e[5])>>, event)
    ELSE vm

\* a plausible slip: the tests of the view model and of the event against null
\* are left out
EvaluatesAnyMention(value, vm, event) ==
    /\ IsString(value)
    /\ Includes(value, "$vm") \/ Includes(value, "$event")

\* whether evaluateExpression hands the value to eval
Evaluates(value, vm, event) ==
    /\ IsString(value)
    /\ \/ Includes(value, "$vm") /\ ~IsNullish(At(vm, <<>>))
       \/ Includes(value, "$event") /\ ~IsNullish(event)

evaluateExpression(value, vm, event) ==
    IF Evaluates(value, vm, event) THEN Eval(value, vm, event) ELSE value

(***************************************************************************)
(* Paths: getModelPropertyValue / setModelPropertyValue                    *)
(***************************************************************************)
\* property.match(/([^[.\]])+/g): the tokens that are not separators, as keys
PathArray(property) ==
    LET segs == SelectSeq(property, LAMBDA tok : tok \notin {".", "[", "]"})
    IN  [i \in 1..Len(segs) |-> Str(segs[i])]

\* pathArray.reduce((prevObj, key) => prevObj && prevObj[key], model), from the
\* i-th key on, prevObj being the value v found at path p
RECURSIVE GetReduce(_, _, _, _, _)
GetReduce(tree, keys, i, p, v) ==
    IF i > Len(keys) THEN v
    ELSE IF ~Truthy(v) THEN GetReduce(tree, keys, i + 1, p, v)
    ELSE GetReduce(tree, keys, i + 1, Append(p, keys[i]),
                   IF v = OBJECT THEN At(tree, Append(p, keys[i])) ELSE UNDEFINED)

getModelPropertyValue(model, property, defaultValue) ==
    IF ~Truthy(property) THEN UNDEFINED
    ELSE LET result == GetReduce(model, PathArray(property), 1, <<>>, At(model, <<>>))
         IN  IF ~IsNullish(result) THEN result ELSE defaultValue

\* the reduce of setModelPropertyValue from the i-th key on, acc being the value
\* at path p; r.ok is FALSE once a TypeError was thrown (a property read of
\* null / undefined, or, in strict mode, a property write on a primitive)
RECURSIVE SetReduce(_, _, _, _, _)
SetReduce(r, keys, i, p, value) ==
    IF i > Len(keys) \/ ~r.ok THEN r
    ELSE LET q == Append(p, keys[i])
         IN  IF At(r.tree, p) # OBJECT
             THEN [ok |-> FALSE, tree |-> r.tree]
             ELSE LET t1 == IF At(r.tree, q) = UNDEFINED
                            THEN SetLeaf(r.tree, q, OBJECT) ELSE r.tree
                      t2 == IF i = Len(keys) THEN SetLeaf(t1, q, value) ELSE t1
                  IN  SetReduce([ok |-> TRUE, tree |-> t2], keys, i + 1, q, value)

setModelPropertyValue(model, property, value) ==
    SetReduce([ok |-> TRUE, tree |-> model], PathArray(property), 1, <<>>, value)

(***************************************************************************)
(* The universe of the model.                                              *)
(***************************************************************************)
Variants == {"lib", "attr", "third"}

Nodes == {1, 2}

PromiseIds == {"P1"}

\* observations of the registry by the lookups of a node's ngOnChanges calls
NotCalled == <<"#notcalled">>

Mixed == <<"#mixed">>

\* the last operation, for the operations no property looks at
Step == [op |-> "step", node |-> 0]

\* the FormControl a node constructs
\* the counts of calls are kept up to this number
MaxCount == 2

ControlOf(n) == IF n = 1 THEN "c1" ELSE "c2"

\* the outputs that are EventEmitters on an instance of a component class
Emitters(type) == {"onSomething"}

\* bound on the ngOnChanges invocations of one node that are in flight at once
MaxRuns == 2

VARIABLES
    variant,               \* which version of the component runs
    present,               \* the <fg-dynamic> nodes that have been instantiated
    components,            \* FGDynamicService._components
    promiseState,          \* each promise: PENDING, REJECTED or its resolved value
    configuration,         \* per node: the configuration input
    viewModelOwner,        \* the signal the owner of the tree binds with [(viewModel)]
    viewModel,             \* per node: the viewModel model signal
    boundViewModel,        \* per node: the value the [(viewModel)] binding passed last
                           \* (NotCalled before the first change detection)
    formGroup,             \* per node: whether the formGroup input is bound
    controls,              \* FormGroup.controls: name -> control
    control,               \* each FormControl: its value, its disabled status, its
                           \* validators, and the name its subscriber closed over
    groupSubscribers,      \* the nodes subscribed to formGroup.valueChanges, in order
    component,             \* per node: _component
    componentRef,          \* per node: _componentRef
    outputsSubscriptions,  \* per node: _outputsSubscriptions
    formControl,           \* per node: _formControl
    formControlDirective,  \* per node: whether _formControlDirective is set
    formSubscription,      \* per node: _formGroupSubscription / _formControlSubscription
    parentNode,            \* the DOM: the parent of each host, anchor and component
                           \* element (Detached when it has none)
    runs,                  \* per node: the ngOnChanges invocations awaiting
    destroyed,             \* per node: whether ngOnDestroy has run
    \* observation (history) variables
    lastRegistered,        \* name -> type of the last effective registerComponent call
    overwritten,           \* names registered again with another type
    seenRegistered,        \* per node: the registration of its type name in force at
                           \* the lookups of its ngOnChanges calls (NotCalled before the
                           \* first lookup, Mixed when the lookups met different ones)
    createArgs,            \* per node: the values passed to ViewContainerRef.createComponent
    counts,                \* per node: how many times createComponent was called on the
                           \* container, outputs were subscribed, a control was created
    finished,              \* per node: whether no ngOnChanges run has ended ("no"), one
                           \* ("once"), or more ("again")
    lastEmit,              \* the last output emission and what it caused
    lastOp                 \* the last operation that ran, when it ended a run, emitted
                           \* an output or changed a control's value

serviceVars == <<components, promiseState, lastRegistered, overwritten>>

inputVars == <<variant, present, configuration, formGroup>>

modelVars == <<viewModelOwner, viewModel>>

formVars == <<controls, control, groupSubscribers>>

nodeVars == <<component, componentRef, outputsSubscriptions, formControl,
              formControlDirective, formSubscription, parentNode, createArgs, counts>>

vars == <<variant, present, components, promiseState, configuration, viewModelOwner,
          viewModel, boundViewModel, formGroup, controls, control, groupSubscribers, component,
          componentRef, outputsSubscriptions, formControl, formControlDirective,
          formSubscription, parentNode, runs, destroyed, lastRegistered, overwritten, seenRegistered,
          createArgs, counts, finished, lastEmit, lastOp>>

(***************************************************************************)
(* FGDynamicService                                                        *)
(***************************************************************************)
\* a plausible slip: the first registration of a name wins
registerComponentKeepFirst(reg, name, type) ==
    IF Truthy(name) /\ Truthy(type) /\ name \notin DOMAIN reg
    THEN (name :> type) @@ reg
    ELSE reg

registerComponent(reg, name, type) ==
    IF Truthy(name) /\ Truthy(type)
    THEN (name :> type) @@ reg
    ELSE reg

\* _components is a plain object ({}): a name that is not its own property is
\* looked up in Object.prototype, whose members are functions
ObjectPrototype ==
    {Str("constructor"), Str("toString"), Str("valueOf"), Str("hasOwnProperty")}

\* a plausible slip: the lookup misses the entries of the registry
getComponentByNameOfNone(reg, name) ==
    IF name \in ObjectPrototype THEN Fn(name[1]) ELSE UNDEFINED

\* getComponentByName ("lib") / getComponent ("attr"): _components[name]
getComponentByName(reg, name) ==
    IF name \in DOMAIN reg THEN reg[name]
    ELSE IF name \in ObjectPrototype THEN Fn(name[1])
    ELSE UNDEFINED

(***************************************************************************)
(* Promises and await                                                      *)
(***************************************************************************)
\* a plausible slip: the promise is not waited for
SettledAlways(v) == TRUE

\* a plausible slip: a rejection is taken for a value
RejectsNever(v) == FALSE

\* a plausible slip: an await that never resumes
SettledNever(v) == FALSE

\* whether `await v` can resume
Settled(v) == IsPromise(v) => promiseState[v[2]] # PENDING

Rejects(v) == IsPromise(v) /\ promiseState[v[2]] = REJECTED

\* the value of `await v`: a promise's resolved value, any other value itself
AwaitValue(v) == IF IsPromise(v) THEN promiseState[v[2]] ELSE v

(***************************************************************************)
(* The configuration of a node (FGDynamicItem) and its parts               *)
(***************************************************************************)
EmptyConfig ==
    [type |-> UNDEFINED, inputs |-> <<>>, outputs |-> <<>>, attributes |-> <<>>,
     hidden |-> UNDEFINED, disabled |-> UNDEFINED, modelProperty |-> UNDEFINED,
     items |-> <<>>,
     min |-> UNDEFINED, max |-> UNDEFINED, required |-> UNDEFINED, email |-> UNDEFINED,
     minLength |-> UNDEFINED, maxLength |-> UNDEFINED, pattern |-> UNDEFINED]

NoComponentRef ==
    [created |-> FALSE, destroyed |-> FALSE, type |-> UNDEFINED, inputs |-> <<>>,
     attributes |-> <<>>, display |-> UNDEFINED]

\* the setting that names the node's form control
ControlNameSetting(n) ==
    IF variant = "lib" THEN configuration[n].modelProperty
    ELSE Prop(configuration[n].attributes, "name")

\* the name of the host attribute that holds a validation setting in "attr"
AttributeOf(setting) ==
    CASE setting = "minLength" -> "minlength"
      [] setting = "maxLength" -> "maxlength"
      [] OTHER -> setting

\* a validation setting: min, max, required, email, minLength, maxLength, pattern
ValidationSetting(n, setting) ==
    IF variant = "lib" THEN configuration[n][setting]
    ELSE Prop(configuration[n].attributes, AttributeOf(setting))

\* the setting that disables the node's form control
DisabledSetting(n) ==
    IF variant = "lib" THEN configuration[n].disabled
    ELSE Prop(configuration[n].attributes, "disabled")

\* the elements of the DOM: the page that holds the tree, and per node the
\* <fg-dynamic> host, the anchor of its #viewContainer and the host element of
\* the component it creates
Page == <<"page", 0>>

Detached == <<"detached", 0>>

Host(n) == <<"fg-dynamic", n>>

Anchor(n) == <<"viewContainer", n>>

Comp(n) == <<"component", n>>

Elements == {Host(n) : n \in Nodes} \cup {Anchor(n) : n \in Nodes} \cup {Comp(n) : n \in Nodes}

\* e is inside a (at any depth)
RECURSIVE Inside(_, _, _)
Inside(dom, e, a) ==
    /\ e \in Elements
    /\ dom[e] # Detached
    /\ (dom[e] = a \/ Inside(dom, dom[e], a))

\* _dynamicItems(): the hosts that the template's @for made for configuration().items;
\* node 2 is the one item of node 1
dynamicItems(n) == IF n = 1 /\ configuration[1].items # <<>> THEN {2} \cap present ELSE {}

NoCounts == [createComponent |-> 0, subscribe |-> 0, formControl |-> 0]

Bump(c) == IF c < MaxCount THEN c + 1 ELSE c

(***************************************************************************)
(* The form group and the view-model signals                               *)
(***************************************************************************)
\* FormGroup.getRawValue(): an object with one property per control
getRawValue(ctls, ctl) ==
    Leaf(OBJECT) @@ [p \in {<<k>> : k \in DOMAIN ctls} |-> ctl[ctls[p[1]]].value]

\* FormGroup.addControl: a control already under the name is not replaced
addControl(ctls, name, c) == IF name \in DOMAIN ctls THEN ctls ELSE (name :> c) @@ ctls

\* viewModel.set(vm) on node n: the two-way binding [(viewModel)] hands the value
\* at once to the signal it is bound to, the viewModel of the node whose item n
\* is, and so on up to the owner's signal; w holds the signals.  The value set
\* is a new object (setModelPropertyValue and the handlers build one), so every
\* binding that reads one of these signals has a value to hand down at the next
\* change detection: w.stale collects the nodes of those bindings
SetViewModel(w, n, vm) ==
    [w EXCEPT !.viewModel = [m \in Nodes |->
                                IF m = n \/ n \in dynamicItems(m) THEN vm ELSE @[m]],
              !.viewModelOwner = vm,
              !.stale = @ \cup {m \in Nodes : \A p \in Nodes :
                                    m \in dynamicItems(p) => (p = n \/ n \in dynamicItems(p))}]

\* the values the bindings handed down last, those of the nodes in `stale` being
\* superseded by a new object
Superseded(stale) == [m \in Nodes |-> IF m \in stale THEN Leaf(NotCalled) ELSE boundViewModel[m]]

\* the signal that [(viewModel)] binds node n to: the viewModel of the node
\* whose item it is, or the owner's signal
BoundViewModel(n) ==
    IF \E m \in Nodes : n \in dynamicItems(m)
    THEN viewModel[CHOOSE m \in Nodes : n \in dynamicItems(m)]
    ELSE viewModelOwner

\* the handler node n subscribes to formGroup.valueChanges: "lib" reads the raw
\* value along the path modelProperty, "third" reads model[attributes.name] ?? null
GroupValueChangesHandler(w, n) ==
    LET model == getRawValue(w.controls, w.control)
        property == ControlNameSetting(n)
        value == IF variant = "lib" THEN getModelPropertyValue(model, property, NULL)
                 ELSE IF IsNullish(At(model, <<property>>)) THEN NULL
                 ELSE At(model, <<property>>)
        r == setModelPropertyValue(w.viewModel[n], property, value)
    IN  IF r.ok THEN SetViewModel(w, n, r.tree) ELSE w

\* the handler node n subscribes to _formControl.valueChanges ("attr"); `name` is
\* the control name evaluated when the control was constructed
ControlValueChangesHandler(w, n, name, value) ==
    LET r == setModelPropertyValue(w.viewModel[n], name, value)
    IN  IF r.ok THEN SetViewModel(w, n, r.tree) ELSE w

\* formGroup.valueChanges emits: the subscribed handlers run in subscription order
RECURSIVE EmitGroupValueChanges(_, _)
EmitGroupValueChanges(w, subscribers) ==
    IF subscribers = <<>> THEN w
    ELSE EmitGroupValueChanges(GroupValueChangesHandler(w, Head(subscribers)),
                               Tail(subscribers))

(***************************************************************************)
(* FGDynamicComponent: the steps of ngOnChanges after its await.  Each     *)
(* method maps the state `s` the node can touch to the state after it;     *)
(* s.threw records an exception, which ends the run.                       *)
(***************************************************************************)
NodeState(n) ==
    [viewModel |-> viewModel, viewModelOwner |-> viewModelOwner, stale |-> {},
     controls |-> controls, control |-> control, groupSubscribers |-> groupSubscribers,
     component |-> component[n], componentRef |-> componentRef[n],
     subscriptions |-> outputsSubscriptions[n], formControl |-> formControl[n],
     directive |-> formControlDirective[n], formSubscription |-> formSubscription[n],
     parentNode |-> parentNode, createArgs |-> createArgs[n], counts |-> counts[n],
     threw |-> FALSE]

\* the names of a set in some order
RECURSIVE SeqOf(_)
SeqOf(S) == IF S = {} THEN <<>>
            ELSE LET x == CHOOSE y \in S : TRUE IN <<x>> \o SeqOf(S \ {x})

\* the outputs of the configuration that are EventEmitters on the instance
OutputNames(n, s) ==
    SeqOf(DOMAIN configuration[n].outputs \cap Emitters(s.componentRef.type))

\* a plausible slip: every output is subscribed twice
handleOutputsTwice(n, s) ==
    [s EXCEPT !.subscriptions =
        @ \o [i \in 1..2 * Len(OutputNames(n, s)) |->
                [output |-> OutputNames(n, s)[((i - 1) % Len(OutputNames(n, s))) + 1],
                 closed |-> FALSE]]]

handleOutputs(n, s) ==
    LET kept == IF variant # "attr"
                THEN [i \in 1..Len(s.subscriptions) |->
                         [s.subscriptions[i] EXCEPT !.closed = TRUE]]
                ELSE s.subscriptions
        names == OutputNames(n, s)
    IN  [s EXCEPT !.subscriptions =
            kept \o [i \in 1..Len(names) |-> [output |-> names[i], closed |-> FALSE]],
                  !.counts.subscribe = IF names = <<>> THEN @ ELSE Bump(@)]

\* attachFormControlDirective: "lib" constructs the directive here, "attr" and
\* "third" have constructed it in createComponent
attachFormControlDirective(n, s) ==
    IF variant = "lib" THEN [s EXCEPT !.directive = TRUE] ELSE s

\* the condition under which a form control is constructed
HasControlSettings(n, s) ==
    /\ formGroup[n]
    /\ Truthy(ControlNameSetting(n))
    /\ Truthy(At(s.viewModel[n], <<>>))

createFormControl(n, s) ==
    LET name == IF variant = "attr"
                THEN evaluateExpression(ControlNameSetting(n), s.viewModel[n], UNDEFINED)
                ELSE ControlNameSetting(n)
        c == ControlOf(n)
        made == [s EXCEPT
                   !.counts.formControl = Bump(@),
                   !.formControl = c,
                   !.control = (c :> [value |-> getModelPropertyValue(s.viewModel[n], name, NULL),
                                      disabled |-> FALSE, validators |-> {},
                                      name |-> name]) @@ @,
                   !.controls = addControl(@, name, c)]
        \* addControl ends with updateValueAndValidity: the group emits valueChanges
        told == EmitGroupValueChanges(made, made.groupSubscribers)
    IN  IF ~HasControlSettings(n, s) THEN s
        ELSE IF variant # "attr"
        THEN attachFormControlDirective(n,
                [told EXCEPT !.groupSubscribers = Append(@, n),
                             !.formSubscription = "active"])
        ELSE IF IsString(name)
        THEN attachFormControlDirective(n, [told EXCEPT !.formSubscription = "active"])
        ELSE s

\* removeHostElement: the children of the host are moved in front of it and
\* the host is removed, if it has a parent element
removeHostElement(n, s) ==
    IF s.parentNode[Host(n)] = Detached THEN s
    ELSE [s EXCEPT !.parentNode = [e \in Elements |->
             IF e = Host(n) THEN Detached
             ELSE IF s.parentNode[e] = Host(n) THEN s.parentNode[Host(n)]
             ELSE s.parentNode[e]]]

\* a plausible slip: the guard does not ask whether a component exists already
CanCreateComponentAgain(n, s) ==
    /\ Truthy(s.component)
    /\ variant = "attr" => ~s.directive

\* the guard of createComponent (viewChild.required: the container is there)
CanCreateComponent(n, s) ==
    /\ Truthy(s.component)
    /\ ~s.componentRef.created
    /\ variant = "attr" => ~s.directive

\* ViewContainerRef.createComponent(c) throws unless c is a component class
createComponent(n, s) ==
    LET withDirective ==
            IF /\ variant # "lib"
               /\ HasControlSettings(n, s)
               /\ variant = "attr" =>
                     IsString(evaluateExpression(ControlNameSetting(n), s.viewModel[n],
                                                 UNDEFINED))
            THEN [s EXCEPT !.directive = TRUE] ELSE s
        called == [withDirective EXCEPT !.createArgs = @ \cup {s.component},
                                        !.counts.createComponent = Bump(@)]
        \* the component's host element is inserted at the anchor, and the
        \* projectable nodes are moved into it
        created == [called EXCEPT
                       !.componentRef =
                           [NoComponentRef EXCEPT !.created = TRUE, !.type = s.component],
                       !.parentNode = [e \in Elements |->
                           IF e = Comp(n) THEN s.parentNode[Anchor(n)]
                           ELSE IF e \in {Host(k) : k \in dynamicItems(n)} THEN Comp(n)
                           ELSE s.parentNode[e]]]
    IN  IF ~CanCreateComponent(n, s) THEN s
        ELSE IF ~IsType(s.component) THEN [called EXCEPT !.threw = TRUE]
        ELSE createFormControl(n, handleOutputs(n, removeHostElement(n, created)))

\* a plausible slip: the configured values are handed over without evaluation
setInputsVerbatim(n, s) ==
    IF s.componentRef.created
    THEN [s EXCEPT !.componentRef.inputs = configuration[n].inputs @@ @]
    ELSE s

setInputs(n, s) ==
    IF s.componentRef.created
    THEN [s EXCEPT !.componentRef.inputs =
            [k \in DOMAIN configuration[n].inputs |->
                evaluateExpression(configuration[n].inputs[k], s.viewModel[n], UNDEFINED)] @@ @]
    ELSE s

\* Element.getAttribute: null when the attribute is absent
getAttribute(ref, k) == IF k \in DOMAIN ref.attributes THEN ref.attributes[k] ELSE NULL

\* the value setAttributes computes for attribute k
AttributeValue(n, s, k) ==
    evaluateExpression(configuration[n].attributes[k], s.viewModel[n], UNDEFINED)

\* "attr" sets an attribute only if value !== getAttribute(...); "lib" and
\* "third" always
SetsAttribute(n, s, k) ==
    variant = "attr" => AttributeValue(n, s, k) # getAttribute(s.componentRef, k)

\* Renderer2.setAttribute stores String(value)
setAttributes(n, s) ==
    IF s.componentRef.created
    THEN [s EXCEPT !.componentRef.attributes =
            [k \in {a \in DOMAIN configuration[n].attributes : SetsAttribute(n, s, a)} |->
                ToStr(AttributeValue(n, s, k))] @@ @]
    ELSE s

\* "lib" only (the other versions have no such method): style display: none
\* while hidden
setVisibility(n, s) ==
    IF ~IsNullish(configuration[n].hidden) /\ s.componentRef.created
    THEN [s EXCEPT !.componentRef.display =
            IF Truthy(evaluateExpression(configuration[n].hidden, s.viewModel[n], UNDEFINED))
            THEN Str("none") ELSE UNDEFINED]
    ELSE s

\* a plausible slip: a control is only ever disabled
setFormControlStatusDisableOnly(n, s) ==
    IF s.formControl # "none" /\ ~IsNullish(DisabledSetting(n))
    THEN [s EXCEPT !.control[s.formControl].disabled =
            @ \/ Truthy(evaluateExpression(DisabledSetting(n), s.viewModel[n], UNDEFINED))]
    ELSE s

\* a plausible slip: disable / enable without emitEvent: false, so that the
\* control's valueChanges and the group's emit to their subscribers
setFormControlStatusEmitting(n, s) ==
    LET isDisabled == evaluateExpression(DisabledSetting(n), s.viewModel[n], UNDEFINED)
        after == [s EXCEPT !.control[s.formControl].disabled = Truthy(isDisabled)]
        heard == IF variant = "attr" /\ s.formSubscription = "active"
                 THEN ControlValueChangesHandler(after, n, after.control[s.formControl].name,
                                                 after.control[s.formControl].value)
                 ELSE after
    IN  IF s.formControl # "none" /\ ~IsNullish(DisabledSetting(n))
           /\ (variant = "attr" => isDisabled \in {Bool(TRUE), Bool(FALSE)})
        THEN EmitGroupValueChanges(heard, heard.groupSubscribers)
        ELSE s

\* disable / enable with emitEvent: false; "attr" acts on a boolean only
setFormControlStatus(n, s) ==
    LET isDisabled == evaluateExpression(DisabledSetting(n), s.viewModel[n], UNDEFINED)
    IN  IF s.formControl # "none" /\ ~IsNullish(DisabledSetting(n))
           /\ (variant = "attr" => isDisabled \in {Bool(TRUE), Bool(FALSE)})
        THEN [s EXCEPT !.control[s.formControl].disabled = Truthy(isDisabled)]
        ELSE s

\* a validator is the pair of its kind and the value it was built from
Validator(kind, value) == <<kind, value>>

\* evaluateExpression on a validation setting
Setting(n, s, setting) ==
    evaluateExpression(ValidationSetting(n, setting), s.viewModel[n], UNDEFINED)

\* "attr" builds a validator only if value.toString() differs from the host's
\* attribute; "lib" and "third" have no such condition
Differs(n, s, setting) ==
    variant = "attr" =>
        ToStr(Setting(n, s, setting)) # getAttribute(s.componentRef, AttributeOf(setting))

\* the setting the pattern validator is built from
PatternSource(n, s) ==
    IF variant = "lib" THEN Setting(n, s, "minLength") ELSE Setting(n, s, "pattern")

\* the array `validators` that setFormControlValidators builds
BuiltValidators(n, s) ==
    {Validator(k, Setting(n, s, k)) : k \in {j \in {"min", "max"} :
        IsNumber(Setting(n, s, j)) /\ Differs(n, s, j)}}
    \cup {Validator(k, Setting(n, s, k)) : k \in {j \in {"required", "email"} :
        Setting(n, s, j) = Bool(TRUE) /\ Differs(n, s, j)}}
    \cup {Validator(k, Setting(n, s, k)) : k \in {j \in {"maxLength", "minLength"} :
        GreaterThanZero(Setting(n, s, j)) /\ Differs(n, s, j)}}
    \cup {Validator("pattern", PatternSource(n, s)) : k \in {j \in {"pattern"} :
        IF variant = "attr"
        THEN IsString(PatternSource(n, s)) /\ Differs(n, s, j)
        ELSE IsString(PatternSource(n, s)) \/ IsRegExp(PatternSource(n, s))}}

\* a plausible slip: the validators of earlier runs are not cleared
setFormControlValidatorsNoClear(n, s) ==
    IF s.formControl # "none"
    THEN [s EXCEPT !.control[s.formControl].validators = @ \cup BuiltValidators(n, s)]
    ELSE s

\* "lib" and "third": clearValidators, then addValidators(validators); "attr":
\* the same, but only if `validators` is not empty, a component exists and
\* attributes are configured
setFormControlValidators(n, s) ==
    IF s.formControl = "none" THEN s
    ELSE IF variant # "attr"
    THEN [s EXCEPT !.control[s.formControl].validators = BuiltValidators(n, s)]
    ELSE IF /\ DOMAIN configuration[n].attributes # {}
            /\ s.componentRef.created
            /\ BuiltValidators(n, s) # {}
    THEN [s EXCEPT !.control[s.formControl].validators = BuiltValidators(n, s)]
    ELSE s

\* the statements of ngOnChanges after its await, in order; an exception thrown
\* by createComponent ends the run
ngOnChangesRest(n, s) ==
    LET s1 == createComponent(n, s)
    IN  IF s1.threw THEN s1
        ELSE IF variant = "lib"
        THEN setFormControlValidators(n,
                setFormControlStatus(n, setVisibility(n, setAttributes(n, setInputs(n, s1)))))
        ELSE IF variant = "third"
        THEN setFormControlValidators(n,
                setFormControlStatus(n, setAttributes(n, setInputs(n, s1))))
        ELSE setAttributes(n,
                setFormControlValidators(n, setFormControlStatus(n, setInputs(n, s1))))

(***************************************************************************)
(* Actions                                                                 *)
(***************************************************************************)
RegNames == {Str("MyDynamicComponent1"), <<>>}

RegTypes == {Type("T1"), Type("T2"), PromiseOf("P1"), Fn("F1"), UNDEFINED}

\* FGDynamicService.registerComponent(name, type)
RegisterComponent(name, type) ==
    /\ components' = registerComponent(components, name, type)
    /\ lastRegistered' = IF name # <<>> /\ ~IsNullish(type)
                         THEN (name :> type) @@ lastRegistered
                         ELSE lastRegistered
    /\ overwritten' = IF name # <<>> /\ ~IsNullish(type)
                         /\ name \in DOMAIN lastRegistered /\ lastRegistered[name] # type
                      THEN overwritten \cup {name}
                      ELSE overwritten
    /\ lastOp' = Step
    /\ UNCHANGED <<promiseState, inputVars, destroyed, boundViewModel, modelVars, formVars, nodeVars, runs,
                   seenRegistered, finished, lastEmit>>

\* a pending promise (a dynamic import) resolves to a component class
ResolvePromise(p, t) ==
    /\ promiseState[p] = PENDING
    /\ promiseState' = [promiseState EXCEPT ![p] = t]
    /\ lastOp' = Step
    /\ UNCHANGED <<components, lastRegistered, overwritten, inputVars, destroyed, boundViewModel, modelVars,
                   formVars, nodeVars, runs, seenRegistered, finished, lastEmit>>

\* the owner of the tree sets its view-model signal
OwnerSetsViewModel(vm) ==
    /\ viewModelOwner # vm
    /\ viewModelOwner' = vm
    /\ lastOp' = Step
    /\ UNCHANGED <<serviceVars, inputVars, destroyed, boundViewModel, viewModel, formVars, nodeVars, runs,
                   seenRegistered, finished, lastEmit>>

\* change detection binds the node's inputs and calls ngOnChanges, which runs
\* loadComponentAsync up to its first await
NgOnChanges(n) ==
    /\ n \in present
    /\ ~destroyed[n]
    /\ Len(runs[n]) < MaxRuns
    /\ viewModel' = [viewModel EXCEPT ![n] = BoundViewModel(n)]
    /\ boundViewModel' = [boundViewModel EXCEPT ![n] = BoundViewModel(n)]
    /\ LET type == configuration[n].type
           load == ~IsNullish(type) /\ ~Truthy(component[n])
           byName == load /\ IsString(type)
           looked == getComponentByName(components, type)
       IN  /\ component' = IF byName /\ variant = "lib"
                           THEN [component EXCEPT ![n] = looked]
                           ELSE component
           /\ runs' = [runs EXCEPT ![n] = Append(@,
                         IF ~load \/ (byName /\ variant = "lib")
                         THEN [pc |-> "cont", awaiting |-> UNDEFINED]
                         ELSE [pc |-> "load",
                               awaiting |-> IF byName THEN looked ELSE type])]
           /\ seenRegistered' = IF byName
                                THEN [seenRegistered EXCEPT ![n] =
                                         IF @ \in {NotCalled, Prop(lastRegistered, type)}
                                         THEN Prop(lastRegistered, type) ELSE Mixed]
                                ELSE seenRegistered
    /\ lastOp' = Step
    /\ UNCHANGED <<serviceVars, inputVars, destroyed, viewModelOwner, formVars, componentRef,
                   outputsSubscriptions, formControl, formControlDirective,
                   formSubscription, parentNode, createArgs, counts, finished, lastEmit>>

\* the await inside loadComponentAsync resumes: _component = (the awaited value).
\* The continuation of an await on a value that is not a promise is queued as a
\* microtask when the run is called, so such awaits resume in the order of the calls
LoadComponentResume(n, i) ==
    /\ i \in 1..Len(runs[n])
    /\ runs[n][i].pc = "load"
    /\ \A j \in 1..(i - 1) : runs[n][j].pc = "load" => IsPromise(runs[n][j].awaiting)
    /\ Settled(runs[n][i].awaiting)
    /\ ~Rejects(runs[n][i].awaiting)
    /\ component' = [component EXCEPT ![n] = AwaitValue(runs[n][i].awaiting)]
    /\ runs' = [runs EXCEPT ![n][i] = [pc |-> "cont", awaiting |-> UNDEFINED]]
    /\ lastOp' = Step
    /\ UNCHANGED <<serviceVars, inputVars, destroyed, boundViewModel, modelVars, formVars, componentRef,
                   outputsSubscriptions, formControl, formControlDirective,
                   formSubscription, parentNode, createArgs, counts, seenRegistered, finished, lastEmit>>

\* the await inside loadComponentAsync throws, the promise having rejected:
\* loadComponentAsync and ngOnChanges reject, and no later statement of the run
\* is executed
LoadComponentReject(n, i) ==
    /\ i \in 1..Len(runs[n])
    /\ runs[n][i].pc = "load"
    /\ Settled(runs[n][i].awaiting)
    /\ Rejects(runs[n][i].awaiting)
    /\ runs' = [runs EXCEPT ![n] = RemoveAt(@, i)]
    /\ finished' = [finished EXCEPT ![n] = IF @ = "no" THEN "once" ELSE "again"]
    /\ lastOp' = [op |-> "rejected", node |-> n]
    /\ UNCHANGED <<serviceVars, inputVars, destroyed, boundViewModel, modelVars, formVars, nodeVars,
                   seenRegistered, lastEmit>>

\* ngOnChanges resumes after `await this.loadComponentAsync()` and runs to its end
NgOnChangesContinue(n, i) ==
    /\ i \in 1..Len(runs[n])
    /\ runs[n][i].pc = "cont"
    /\ LET s == ngOnChangesRest(n, NodeState(n))
       IN  /\ viewModel' = s.viewModel
           /\ viewModelOwner' = s.viewModelOwner
           /\ controls' = s.controls
           /\ control' = s.control
           /\ groupSubscribers' = s.groupSubscribers
           /\ component' = [component EXCEPT ![n] = s.component]
           /\ componentRef' = [componentRef EXCEPT ![n] = s.componentRef]
           /\ outputsSubscriptions' = [outputsSubscriptions EXCEPT ![n] = s.subscriptions]
           /\ formControl' = [formControl EXCEPT ![n] = s.formControl]
           /\ formControlDirective' = [formControlDirective EXCEPT ![n] = s.directive]
           /\ formSubscription' = [formSubscription EXCEPT ![n] = s.formSubscription]
           /\ createArgs' = [createArgs EXCEPT ![n] = s.createArgs]
           /\ parentNode' = s.parentNode
           /\ counts' = [counts EXCEPT ![n] = s.counts]
           /\ boundViewModel' = Superseded(s.stale)
           /\ lastOp' = [op |-> IF s.threw THEN "threw" ELSE "done", node |-> n]
    /\ runs' = [runs EXCEPT ![n] = RemoveAt(@, i)]
    /\ finished' = [finished EXCEPT ![n] = IF @ = "no" THEN "once" ELSE "again"]
    /\ UNCHANGED <<serviceVars, inputVars, destroyed, seenRegistered, lastEmit>>

\* the subscriber of one output subscription: evaluateExpression on the handler,
\* then a call of the result when it is a function; e counts both
OutputHandler(w, n, output, event) ==
    LET handler == configuration[n].outputs[output]
        vm == w.viewModel[n]
        result == evaluateExpression(handler, vm, event)
        after == IF Evaluates(handler, vm, event) /\ IsUpdateExpr(handler)
                 THEN SetViewModel(w, n, EvalEffect(handler, vm, event)) ELSE w
    IN  [after EXCEPT !.evaluations = @ + 1,
                      !.evals = IF Evaluates(handler, vm, event) THEN @ + 1 ELSE @,
                      !.errors = IF Evaluates(handler, vm, event) /\ EvalThrows(handler)
                                 THEN @ + 1 ELSE @,
                      !.calls = IF IsFunction(result) THEN Append(@, event) ELSE @]

RECURSIVE EmitTo(_, _, _, _, _)
EmitTo(w, n, subs, output, event) ==
    IF subs = <<>> THEN w
    ELSE EmitTo(IF Head(subs).output = output /\ ~Head(subs).closed
                THEN OutputHandler(w, n, output, event) ELSE w,
                n, Tail(subs), output, event)

\* the created component emits `event` on one of its outputs
Emit(n, output, event) ==
    /\ componentRef[n].created
    /\ output \in Emitters(componentRef[n].type)
    /\ LET w == EmitTo([viewModel |-> viewModel, viewModelOwner |-> viewModelOwner,
                        stale |-> {}, evaluations |-> 0, evals |-> 0, errors |-> 0,
                        calls |-> <<>>],
                       n, outputsSubscriptions[n], output, event)
       IN  /\ viewModel' = w.viewModel
           /\ viewModelOwner' = w.viewModelOwner
           /\ boundViewModel' = Superseded(w.stale)
           /\ lastEmit' = [node |-> n, output |-> output, event |-> event,
                           evaluations |-> w.evaluations, evals |-> w.evals,
                           errors |-> w.errors, calls |-> w.calls]
    /\ lastOp' = [op |-> "emit", node |-> n]
    /\ UNCHANGED <<serviceVars, inputVars, destroyed, formVars, nodeVars, runs, seenRegistered,
                   finished>>

\* control c, the controls being `ctl`, emits valueChanges to its subscriber
\* ("attr"), then the group the control belongs to emits valueChanges to its
\* subscribers ("lib", "third"); the result holds the view-model signals
ValueChangesEmitted(c, ctl) ==
    LET w0 == [viewModel |-> viewModel, viewModelOwner |-> viewModelOwner,
               stale |-> {}, controls |-> controls, control |-> ctl]
        n == CHOOSE m \in Nodes : ControlOf(m) = c
        w1 == IF variant = "attr" /\ formControl[n] = c /\ formSubscription[n] = "active"
              THEN ControlValueChangesHandler(w0, n, ctl[c].name, ctl[c].value)
              ELSE w0
    IN  IF \E k \in DOMAIN controls : controls[k] = c
        THEN EmitGroupValueChanges(w1, groupSubscribers)
        ELSE w1

\* the value of a form control is set (setValue from the UI or from code), to a
\* new value or to the one it holds: setValue emits valueChanges either way
ControlValueChange(c, value) ==
    /\ c \in DOMAIN control
    /\ LET ctl == [control EXCEPT ![c].value = value]
           n == CHOOSE m \in Nodes : ControlOf(m) = c
           w2 == ValueChangesEmitted(c, ctl)
       IN  /\ control' = ctl
           /\ viewModel' = w2.viewModel
           /\ viewModelOwner' = w2.viewModelOwner
           /\ boundViewModel' = Superseded(w2.stale)
           /\ lastOp' = [op |-> "valueChange", node |-> n]
    /\ UNCHANGED <<serviceVars, inputVars, destroyed, controls, groupSubscribers, nodeVars, runs,
                   seenRegistered, finished, lastEmit>>

\* the owner of the form disables or enables a control, with the default
\* options: control.disable() / enable() emit valueChanges with the control's
\* value and update the group, which emits valueChanges too, whether or not
\* the control had that status already
OwnerSetsDisabled(c, b) ==
    /\ c \in DOMAIN control
    /\ LET ctl == [control EXCEPT ![c].disabled = b]
           w == ValueChangesEmitted(c, ctl)
       IN  /\ control' = ctl
           /\ viewModel' = w.viewModel
           /\ viewModelOwner' = w.viewModelOwner
           /\ boundViewModel' = Superseded(w.stale)
    /\ lastOp' = Step
    /\ UNCHANGED <<serviceVars, inputVars, destroyed, controls, groupSubscribers,
                   nodeVars, runs, seenRegistered, finished, lastEmit>>

\* a plausible slip: the subscriptions are left as they are
unsubscribeNone(subs) == subs

\* _outputsSubscriptions.forEach(s => s.unsubscribe())
unsubscribeAll(subs) == [i \in 1..Len(subs) |-> [subs[i] EXCEPT !.closed = TRUE]]

\* ngOnDestroy: every output subscription and the form subscription are
\* unsubscribed and the component, if there is one, is destroyed.  The directive's
\* own ngOnDestroy touches nothing that is modelled here
NgOnDestroy(n) ==
    /\ n \in present
    /\ ~destroyed[n]
    /\ destroyed' = [destroyed EXCEPT ![n] = TRUE]
    /\ outputsSubscriptions' = [outputsSubscriptions EXCEPT ![n] = unsubscribeAll(@)]
    /\ formSubscription' = [formSubscription EXCEPT ![n] =
          IF @ = "active" THEN "closed" ELSE @]
    /\ groupSubscribers' = IF formSubscription[n] = "active"
                           THEN SelectSeq(groupSubscribers, LAMBDA m : m # n)
                           ELSE groupSubscribers
    /\ componentRef' = [componentRef EXCEPT ![n] =
          IF @.created THEN [@ EXCEPT !.destroyed = TRUE] ELSE @]
    /\ parentNode' = IF componentRef[n].created
                     THEN [parentNode EXCEPT ![Comp(n)] = Detached]
                     ELSE parentNode
    /\ lastOp' = Step
    /\ UNCHANGED <<serviceVars, inputVars, modelVars, boundViewModel, controls, control,
                   component,
                   formControl, formControlDirective, createArgs, counts, runs,
                   seenRegistered, finished, lastEmit>>

(***************************************************************************)
(* Specifications.  Each starts in every version, with one root node or    *)
(* with a root node and its item.                                          *)
(***************************************************************************)
InitTree(nodes) ==
    /\ variant \in Variants
    /\ present = nodes
    /\ parentNode = [e \in Elements |->
          IF e = Host(1) THEN Page
          ELSE IF e = Host(2) /\ 2 \in nodes THEN Host(1)
          ELSE IF e \in {Anchor(n) : n \in nodes} THEN Host(e[2])
          ELSE Detached]
    /\ counts = [n \in Nodes |-> NoCounts]
    /\ viewModel = [n \in Nodes |-> Leaf(UNDEFINED)]
    /\ boundViewModel = [n \in Nodes |-> Leaf(NotCalled)]
    /\ controls = <<>>
    /\ control = <<>>
    /\ groupSubscribers = <<>>
    /\ component = [n \in Nodes |-> UNDEFINED]
    /\ componentRef = [n \in Nodes |-> NoComponentRef]
    /\ outputsSubscriptions = [n \in Nodes |-> <<>>]
    /\ formControl = [n \in Nodes |-> "none"]
    /\ formControlDirective = [n \in Nodes |-> FALSE]
    /\ formSubscription = [n \in Nodes |-> "none"]
    /\ runs = [n \in Nodes |-> <<>>]
    /\ destroyed = [n \in Nodes |-> FALSE]
    /\ components = <<>>
    /\ lastRegistered = <<>>
    /\ overwritten = {}
    /\ promiseState = [p \in PromiseIds |-> PENDING]
    /\ seenRegistered = [n \in Nodes |-> NotCalled]
    /\ createArgs = [n \in Nodes |-> {}]
    /\ finished = [n \in Nodes |-> "no"]
    /\ lastEmit = [node |-> 0, output |-> "", event |-> UNDEFINED,
                   evaluations |-> 0, evals |-> 0, errors |-> 0, calls |-> <<>>]
    /\ lastOp = [op |-> "init", node |-> 0]

\* one root node
InitNodes == InitTree({1})

Lifecycle ==
    \/ \E n \in Nodes : NgOnChanges(n)
    \/ \E n \in Nodes, i \in 1..MaxRuns : LoadComponentResume(n, i)
    \/ \E n \in Nodes, i \in 1..MaxRuns : NgOnChangesContinue(n, i)

(* Type resolution: the registry, a promise, and the ways to give a type. *)
LoadTypes == {Str("MyDynamicComponent1"), Type("T1"), PromiseOf("P1"), Fn("F1")}

InitLoad ==
    /\ InitNodes
    /\ viewModelOwner = Leaf(UNDEFINED)
    /\ formGroup = [n \in Nodes |-> FALSE]
    /\ \E t \in LoadTypes :
          configuration = [n \in Nodes |-> [EmptyConfig EXCEPT !.type = t]]

NextLoad ==
    \/ \E name \in RegNames, type \in RegTypes : RegisterComponent(name, type)
    \/ \E p \in PromiseIds, t \in {Type("T1"), Type("T2")} : ResolvePromise(p, t)
    \/ Lifecycle

SpecLoad == InitLoad /\ [][NextLoad]_vars

(* Bindings: inputs, outputs and attributes against a changing view model. *)
BindViewModels ==
    {Leaf(UNDEFINED), Obj([message |-> Str("Hello")]), Obj([message |-> Str("Bye")]),
     Obj([message |-> NULL])}

BindHandlers == {Fn("alert"), UpdateExpr("message"), LogExpr, ReadmeUpdateExpr}

BindEvents == {Str("Bye"), NULL}

BindConfig(handler) ==
    [EmptyConfig EXCEPT
        !.type = Type("T1"),
        !.inputs = [hello |-> Str("world"), text |-> ReadExpr("message"),
                    something |-> Fn("complex")],
        !.outputs = [onSomething |-> handler, notAnOutput |-> Fn("alert")],
        !.attributes = [class |-> <<"some", " ", "classes">>, maxlength |-> Num("20"),
                        title |-> ReadExpr("message")],
        !.hidden = ReadExpr("message")]

InitBind ==
    /\ InitNodes
    /\ viewModelOwner \in BindViewModels
    /\ formGroup = [n \in Nodes |-> FALSE]
    /\ \E h \in BindHandlers : configuration = [n \in Nodes |-> BindConfig(h)]

NextBind ==
    \/ \E vm \in BindViewModels : OwnerSetsViewModel(vm)
    \/ \E n \in Nodes, e \in BindEvents : Emit(n, "onSomething", e)
    \/ Lifecycle

SpecBind == InitBind /\ [][NextBind]_vars

(* Forms: a control named by a single segment or by a dotted path. *)
Dotted == <<"data", ".", "firstName">>

FormNames == {Str("firstName"), Dotted}

FormDisabled == {UNDEFINED, ReadExpr("isDisabled")}

FormViewModel(data, dis) ==
    Leaf(OBJECT) @@ (<<Str("firstName")>> :> Str("Jhon")) @@ (<<Str("isDisabled")>> :> dis)
    @@ (IF data = OBJECT
        THEN (<<Str("data")>> :> OBJECT) @@ (<<Str("data"), Str("firstName")>> :> Str("Jhon"))
        ELSE IF data = UNDEFINED THEN <<>>
        ELSE (<<Str("data")>> :> data))

FormViewModels ==
    {Leaf(UNDEFINED)}
    \cup {FormViewModel(OBJECT, Bool(b)) : b \in BOOLEAN}
    \cup {FormViewModel(Num("0"), Bool(FALSE))}

FormValues == {Str("Ann"), <<>>}

FormConfig(name, dis) ==
    IF variant = "lib"
    THEN [EmptyConfig EXCEPT !.type = Type("T1"), !.modelProperty = name, !.disabled = dis]
    ELSE [EmptyConfig EXCEPT !.type = Type("T1"),
            !.attributes = IF dis = UNDEFINED THEN [name |-> name]
                           ELSE [name |-> name, disabled |-> dis]]

InitForm ==
    /\ InitNodes
    /\ viewModelOwner \in FormViewModels
    /\ formGroup = [n \in Nodes |-> TRUE]
    /\ \E name \in FormNames, dis \in FormDisabled :
          configuration = [n \in Nodes |-> FormConfig(name, dis)]

NextForm ==
    \/ \E vm \in FormViewModels : OwnerSetsViewModel(vm)
    \/ \E c \in {"c1", "c2"}, v \in FormValues : ControlValueChange(c, v)
    \/ \E c \in {"c1", "c2"}, b \in BOOLEAN : OwnerSetsDisabled(c, b)
    \/ Lifecycle

SpecForm == InitForm /\ [][NextForm]_vars

(***************************************************************************)
(* Validation: the settings that select validators, some bound to the view *)
(* model so that they qualify in one run and not in the next.              *)
(***************************************************************************)
ValidViewModels ==
    {Obj([firstName |-> Str("Jhon"), limit |-> lf[1], flag |-> Bool(lf[2])]) :
        lf \in {<<Num("3"), TRUE>>, <<Num("0"), TRUE>>, <<Num("0"), FALSE>>,
                <<Str("x"), FALSE>>}}

ValidSettings ==
    {[min |-> ReadExpr("limit"), max |-> Num("20"), required |-> ReadExpr("flag"),
      email |-> Bool(TRUE), maxLength |-> ReadExpr("limit"), minLength |-> lp[1],
      pattern |-> lp[2]] :
        lp \in {<<UNDEFINED, Str("[a-z]+")>>, <<ReadExpr("limit"), UNDEFINED>>,
                <<ReadExpr("limit"), RegExp("[a-z]+")>>}}

\* the settings that are given; "attr" takes them from `attributes`
ValidConfig(v) ==
    IF variant = "lib"
    THEN [EmptyConfig EXCEPT !.type = Type("T1"), !.modelProperty = Str("firstName"),
            !.min = v.min, !.max = v.max, !.required = v.required, !.email = v.email,
            !.maxLength = v.maxLength, !.minLength = v.minLength, !.pattern = v.pattern]
    ELSE [EmptyConfig EXCEPT !.type = Type("T1"),
            !.attributes =
                [k \in {"name"} \cup {AttributeOf(j) : j \in {i \in DOMAIN v : v[i] # UNDEFINED}}
                    |-> IF k = "name" THEN Str("firstName")
                        ELSE v[CHOOSE j \in DOMAIN v : AttributeOf(j) = k]]]

InitValid ==
    /\ InitNodes
    /\ viewModelOwner \in ValidViewModels
    /\ formGroup = [n \in Nodes |-> TRUE]
    /\ \E v \in ValidSettings : configuration = [n \in Nodes |-> ValidConfig(v)]

NextValid ==
    \/ \E vm \in ValidViewModels : OwnerSetsViewModel(vm)
    \/ Lifecycle

SpecValid == InitValid /\ [][NextValid]_vars

(***************************************************************************)
(* Destruction: a node with an output handler and a form control, whose    *)
(* type is a class or a promise of one, destroyed at any moment.           *)
(***************************************************************************)
DestroyTypes == {Type("T1"), PromiseOf("P1")}

DestroyViewModel == Obj([firstName |-> Str("Jhon"), message |-> Str("Hello")])

DestroyConfig(type) ==
    IF variant = "lib"
    THEN [EmptyConfig EXCEPT !.type = type, !.modelProperty = Str("firstName"),
            !.outputs = [onSomething |-> UpdateExpr("message")]]
    ELSE [EmptyConfig EXCEPT !.type = type, !.attributes = [name |-> Str("firstName")],
            !.outputs = [onSomething |-> UpdateExpr("message")]]

InitDestroy ==
    /\ InitNodes
    /\ viewModelOwner = DestroyViewModel
    /\ formGroup = [n \in Nodes |-> TRUE]
    /\ \E t \in DestroyTypes : configuration = [n \in Nodes |-> DestroyConfig(t)]

NextDestroy ==
    \/ \E p \in PromiseIds : ResolvePromise(p, Type("T1"))
    \/ \E n \in Nodes, e \in BindEvents : Emit(n, "onSomething", e)
    \/ \E c \in {"c1", "c2"}, v \in FormValues : ControlValueChange(c, v)
    \/ \E n \in Nodes : NgOnDestroy(n)
    \/ Lifecycle

SpecDestroy == InitDestroy /\ [][NextDestroy]_vars

(***************************************************************************)
(* The registry: two names registered, registered again and looked up.     *)
(***************************************************************************)
RegistryNames == {Str("MyDynamicComponent1"), Str("constructor")}

RegistryTypes == {Type("T1"), Type("T2"), UNDEFINED, NULL}

InitRegistry ==
    /\ InitNodes
    /\ viewModelOwner = Leaf(UNDEFINED)
    /\ formGroup = [n \in Nodes |-> FALSE]
    /\ \E t \in RegistryNames :
          configuration = [n \in Nodes |-> [EmptyConfig EXCEPT !.type = t]]

NextRegistry ==
    \/ \E name \in RegistryNames \cup {<<>>}, type \in RegistryTypes :
          RegisterComponent(name, type)
    \/ Lifecycle

SpecRegistry == InitRegistry /\ [][NextRegistry]_vars

(***************************************************************************)
(* A tree: node 1 with a lazily loaded type and one item, node 2.  The     *)
(* child's inputs are bound when the parent's view is rendered, that is    *)
(* after ngOnChanges was called on the parent.                             *)
(***************************************************************************)
TreeChild == [EmptyConfig EXCEPT !.type = Type("T2")]

TreeParent == [EmptyConfig EXCEPT !.type = PromiseOf("P1"), !.items = <<TreeChild>>]

InitParentChild ==
    /\ InitTree({1, 2})
    /\ viewModelOwner = Leaf(UNDEFINED)
    /\ formGroup = [n \in Nodes |-> FALSE]
    /\ configuration = [n \in Nodes |-> IF n = 1 THEN TreeParent ELSE TreeChild]

\* the parent's ngOnChanges has been called
Rendered == runs[1] # <<>> \/ finished[1] # "no"

NextParentChild ==
    \/ \E p \in PromiseIds : ResolvePromise(p, Type("T1"))
    \/ NgOnChanges(1)
    \/ Rendered /\ NgOnChanges(2)
    \/ \E n \in Nodes, i \in 1..MaxRuns : LoadComponentResume(n, i)
    \/ \E n \in Nodes, i \in 1..MaxRuns : NgOnChangesContinue(n, i)

SpecParentChild == InitParentChild /\ [][NextParentChild]_vars

(***************************************************************************)
(* Two nodes, one form group, one view model: node 1 and its item, each    *)
(* with a control, under different names or under the same name.           *)
(***************************************************************************)
SharedViewModel == Obj([firstName |-> Str("Jhon"), lastName |-> Str("Doe")])

SharedNames == {Str("firstName"), Str("lastName")}

SharedConfig(type, name, items) ==
    IF variant = "lib"
    THEN [EmptyConfig EXCEPT !.type = type, !.modelProperty = name, !.items = items]
    ELSE [EmptyConfig EXCEPT !.type = type, !.attributes = [name |-> name],
            !.items = items]

InitShared ==
    /\ InitTree({1, 2})
    /\ viewModelOwner = SharedViewModel
    /\ formGroup = [n \in Nodes |-> TRUE]
    /\ \E name \in SharedNames :
          configuration = [n \in Nodes |->
              IF n = 1
              THEN SharedConfig(Type("T1"), Str("firstName"),
                                <<SharedConfig(Type("T2"), name, <<>>)>>)
              ELSE SharedConfig(Type("T2"), name, <<>>)]

NextShared ==
    \/ \E c \in {"c1", "c2"} : ControlValueChange(c, Str("Ann"))
    \/ NgOnChanges(1)
    \/ Rendered /\ NgOnChanges(2)
    \/ \E n \in Nodes, i \in 1..MaxRuns : LoadComponentResume(n, i)
    \/ \E n \in Nodes, i \in 1..MaxRuns : NgOnChangesContinue(n, i)

SpecShared == InitShared /\ [][NextShared]_vars

(***************************************************************************)
(* Rejection: a node whose type is a promise that resolves or rejects.     *)
(***************************************************************************)
RejectConfig ==
    [BindConfig(UpdateExpr("message")) EXCEPT
        !.type = PromiseOf("P1"),
        !.modelProperty = IF variant = "lib" THEN Str("message") ELSE UNDEFINED,
        !.attributes = IF variant = "lib" THEN @ ELSE [name |-> Str("message")]]

InitReject ==
    /\ InitNodes
    /\ viewModelOwner = Obj([message |-> Str("Hello")])
    /\ formGroup = [n \in Nodes |-> TRUE]
    /\ configuration = [n \in Nodes |-> RejectConfig]

NextReject ==
    \/ \E p \in PromiseIds, t \in {Type("T1"), REJECTED} : ResolvePromise(p, t)
    \/ \E n \in Nodes, i \in 1..MaxRuns : LoadComponentReject(n, i)
    \/ \E vm \in BindViewModels : OwnerSetsViewModel(vm)
    \/ Lifecycle

SpecReject == InitReject /\ [][NextReject]_vars

(***************************************************************************)
(* The cascade of a value change: node 1 and its item, each with a control *)
(* whose status follows the view-model property the control writes.        *)
(* ngOnChanges runs only when change detection finds that the value of the *)
(* [(viewModel)] binding has changed; a control's value may be set at any  *)
(* moment and any number of times: first to a new value, the empty         *)
(* string, then to the value it holds, and each time valueChanges emits.   *)
(***************************************************************************)
CascadeConfig(type, name, items) ==
    IF variant = "lib"
    THEN [EmptyConfig EXCEPT !.type = type, !.modelProperty = name, !.items = items,
            !.disabled = ReadExpr(name[1]), !.minLength = ReadExpr(name[1])]
    ELSE [EmptyConfig EXCEPT !.type = type, !.items = items,
            !.attributes = [name |-> name, disabled |-> ReadExpr("locked"),
                            pattern |-> ReadExpr(name[1])]]

CascadeViewModel ==
    Obj([firstName |-> Str("Jhon"), lastName |-> Str("Doe"), locked |-> Bool(TRUE)])

InitCascade ==
    /\ InitTree({1, 2})
    /\ viewModelOwner = CascadeViewModel
    /\ formGroup = [n \in Nodes |-> TRUE]
    /\ configuration = [n \in Nodes |->
          IF n = 1
          THEN CascadeConfig(Type("T1"), Str("firstName"),
                             <<CascadeConfig(Type("T2"), Str("lastName"), <<>>)>>)
          ELSE CascadeConfig(Type("T2"), Str("lastName"), <<>>)]

\* change detection calls ngOnChanges on a node when the value of its
\* [(viewModel)] binding differs from the one passed last
ChangeDetection(n) ==
    /\ n = 2 => Rendered
    /\ boundViewModel[n] # BoundViewModel(n)
    /\ NgOnChanges(n)

\* the steps the framework is bound to take
CascadeSteps ==
    \/ \E n \in Nodes : ChangeDetection(n)
    \/ \E n \in Nodes, i \in 1..MaxRuns : LoadComponentResume(n, i)
    \/ \E n \in Nodes, i \in 1..MaxRuns : NgOnChangesContinue(n, i)

NextCascade ==
    \/ \E c \in {"c1", "c2"} : ControlValueChange(c, <<>>)
    \/ CascadeSteps

SpecCascade == InitCascade /\ [][NextCascade]_vars

(***************************************************************************)
(* Properties                                                              *)
(***************************************************************************)
\* an ngOnChanges run of node n has just ended normally
RunEnded(n) == lastOp = [op |-> "done", node |-> n]

\* C1: a node whose type is a name creates a component of exactly the type that
\* was registered under the name when its ngOnChanges ran, that is the type of
\* the most recent registration
C1_RegisteredTypeCreated ==
    \A n \in present : \A t \in RegTypes :
        (/\ RunEnded(n)
         /\ IsString(configuration[n].type)
         /\ IsType(t)
         /\ seenRegistered[n] = t)
        => /\ componentRef[n].created
           /\ componentRef[n].type = t
           /\ createArgs[n] = {t}

\* a run has ended with a component of the type registered last, after the name
\* had been registered with another type
C1_Witness ==
    /\ RunEnded(1)
    /\ configuration[1].type \in overwritten
    /\ seenRegistered[1] = Type("T2")
    /\ componentRef[1].created
    /\ componentRef[1].type = Type("T2")

\* C2: for a name registered with a promise of a component type, the node waits
\* for the promise: createComponent is never called with the promise object
C2_RegisteredPromiseAwaited ==
    \A n \in present :
        IsString(configuration[n].type) => \A a \in createArgs[n] : ~IsPromise(a)

\* C3: for a type given as a promise, no component exists while the promise is
\* pending, and when the run that waited for it has ended the node has created a
\* component of exactly the resolved type
C3_PromiseTypeAwaited ==
    \A n \in present : \A p \in PromiseIds :
        configuration[n].type = PromiseOf(p)
        => /\ promiseState[p] = PENDING => ~componentRef[n].created /\ createArgs[n] = {}
           /\ (lastOp.node = n /\ lastOp.op \in {"done", "threw"})
              => /\ componentRef[n].created
                 /\ componentRef[n].type = promiseState[p]
                 /\ createArgs[n] = {promiseState[p]}

\* the run that waited for the promise has ended with a component of the type
\* the promise resolved to
C3_Witness ==
    /\ RunEnded(1)
    /\ configuration[1].type = PromiseOf("P1")
    /\ promiseState["P1"] = Type("T2")
    /\ componentRef[1].created
    /\ componentRef[1].type = Type("T2")

\* C4: a type (or a registry entry) given as a function returning a promise is
\* invoked: createComponent is never called with the function
C4_FunctionTypeInvoked ==
    \A n \in present : \A a \in createArgs[n] : ~IsFn(a)

\* C5: at the end of every ngOnChanges run in which the node has a created
\* component, every configured input has been set on the component to the value
\* its configured value evaluates to against the current view model
C5_InputsSetAtEndOfRun ==
    \A n \in present :
        (RunEnded(n) /\ componentRef[n].created)
        => \A k \in DOMAIN configuration[n].inputs :
              /\ k \in DOMAIN componentRef[n].inputs
              /\ componentRef[n].inputs[k] =
                    evaluateExpression(configuration[n].inputs[k], viewModel[n], UNDEFINED)

\* a later run has ended after the view model changed: the expression-bound
\* input holds the new value, the literal input its literal
C5_Witness ==
    /\ RunEnded(1)
    /\ finished[1] = "again"
    /\ viewModel[1] = Obj([message |-> Str("Bye")])
    /\ componentRef[1].inputs["text"] = Str("Bye")
    /\ componentRef[1].inputs["hello"] = Str("world")

\* C6: each emission of a configured output that is an EventEmitter of the
\* created component causes exactly one evaluation of its handler, and exactly
\* one call, with the emitted value, of a result that is a function, however
\* many ngOnChanges runs the node has gone through
C6_OneEvaluationPerEmission ==
    lastOp.op = "emit"
    => LET n == lastEmit.node
       IN  lastEmit.output \in DOMAIN configuration[n].outputs
           => /\ lastEmit.evaluations = 1
              /\ lastEmit.calls =
                    IF IsFunction(configuration[n].outputs[lastEmit.output])
                    THEN <<lastEmit.event>> ELSE <<>>

\* after two runs of the node an emission was handled once, by a call of the
\* configured function with the emitted value
C6_Witness ==
    /\ lastOp = [op |-> "emit", node |-> 1]
    /\ finished[1] = "again"
    /\ lastEmit.evaluations = 1
    /\ lastEmit.calls = <<Str("Bye")>>

\* C7: at the end of every ngOnChanges run in which the node has a created
\* component, every configured attribute is present on the host element, with
\* the (string of the) value its configured value evaluates to
C7_AttributesPresent ==
    \A n \in present :
        (RunEnded(n) /\ componentRef[n].created)
        => \A k \in DOMAIN configuration[n].attributes :
              /\ k \in DOMAIN componentRef[n].attributes
              /\ componentRef[n].attributes[k] =
                    ToStr(evaluateExpression(configuration[n].attributes[k],
                                             viewModel[n], UNDEFINED))

\* C8: when a node constructs its control for a name the form group has no
\* control under, the group then has a control under the name whose value is the
\* view model's value at the path the name gives, or null when there is none
C8_ControlHoldsValueAtPath ==
    \A n \in present :
        (/\ RunEnded(n)
         /\ finished[n] = "once"
         /\ formControl[n] # "none"
         /\ At(viewModel[n], <<>>) = OBJECT)
        => LET c == formControl[n]
               path == PathArray(control[c].name)
               found == IF \A i \in 1..(Len(path) - 1) :
                              At(viewModel[n], SubSeq(path, 1, i)) = OBJECT
                        THEN At(viewModel[n], path) ELSE UNDEFINED
           IN  /\ control[c].name \in DOMAIN controls
               /\ controls[control[c].name] = c
               /\ control[c].value = IF IsNullish(found) THEN NULL ELSE found

\* C9: when the value of a node's control changes, the view model is set to a
\* value whose property at the path given by the control name is the new value,
\* for a single-segment name and for a dotted one
C9_ValueChangeReachesViewModel ==
    \A n \in present :
        (/\ lastOp = [op |-> "valueChange", node |-> n]
         /\ formControl[n] = ControlOf(n)
         /\ At(viewModel[n], <<>>) = OBJECT
         /\ At(viewModel[n], <<Str("data")>>) \in {OBJECT, UNDEFINED})
        => LET c == formControl[n]
           IN  /\ At(viewModel[n], PathArray(control[c].name)) = control[c].value
               /\ viewModelOwner = viewModel[n]

\* C10: after every ngOnChanges run of a node with a form control, the control
\* is disabled when the configured disabled setting evaluates to true, enabled
\* when it evaluates to false; without a disabled setting the run leaves the
\* control's status as it was
C10_StatusFollowsSetting ==
    [][\A n \in present :
         (lastOp' = [op |-> "done", node |-> n] /\ formControl'[n] # "none")
         => LET c == formControl'[n]
                isDisabled == evaluateExpression(DisabledSetting(n), viewModel'[n], UNDEFINED)
            IN  /\ (~IsNullish(DisabledSetting(n)) /\ isDisabled = Bool(TRUE))
                   => control'[c].disabled
                /\ (~IsNullish(DisabledSetting(n)) /\ isDisabled = Bool(FALSE))
                   => ~control'[c].disabled
                /\ (IsNullish(DisabledSetting(n)) /\ formControl[n] # "none")
                   => control'[c].disabled = control[c].disabled]_vars

\* a later run has ended with the control disabled, the setting evaluating to
\* true against the view model
C10_Witness ==
    /\ RunEnded(1)
    /\ finished[1] = "again"
    /\ formControl[1] = "c1"
    /\ evaluateExpression(DisabledSetting(1), viewModel[1], UNDEFINED) = Bool(TRUE)
    /\ control["c1"].disabled


\* the validators of the given kinds that node n's control carries
ValidatorsOf(n, kinds) == {v \in control[formControl[n]].validators : v[1] \in kinds}

\* a validation setting of node n, evaluated against the node's view model
Evaluated(n, setting) ==
    evaluateExpression(ValidationSetting(n, setting), viewModel[n], UNDEFINED)

\* C11: in fg-dynamic.component.ts, at the end of every ngOnChanges run of a
\* node that holds a form control, the control's min, max, required, email,
\* maxLength and minLength validators are exactly those that the configuration
\* selects against the view model: min / max iff the setting is a number,
\* required / email iff it is true, maxLength / minLength iff it is greater
\* than zero, each built from its setting's value; none is left from an earlier run
C11_ValidatorsFollowSettings ==
    (RunEnded(1) /\ variant = "lib" /\ formControl[1] # "none") =>
        ValidatorsOf(1, {"min", "max", "required", "email", "maxLength", "minLength"})
        = {<<k, Evaluated(1, k)>> : k \in
             {j \in {"min", "max"} : IsNumber(Evaluated(1, j))}
             \cup {j \in {"required", "email"} : Evaluated(1, j) = Bool(TRUE)}
             \cup {j \in {"maxLength", "minLength"} : GreaterThanZero(Evaluated(1, j))}}

\* a later run has ended with settings that do not qualify (min is not a number,
\* required is false) next to ones that do (max, email)
C11_Witness ==
    /\ RunEnded(1) /\ variant = "lib" /\ formControl[1] # "none"
    /\ finished[1] = "again"
    /\ ~IsNumber(Evaluated(1, "min")) /\ Evaluated(1, "required") = Bool(FALSE)
    /\ ValidatorsOf(1, {"min", "required"}) = {}
    /\ ValidatorsOf(1, {"max", "email"}) = {<<"max", Num("20")>>, <<"email", Bool(TRUE)>>}

\* C12: at the end of an ngOnChanges run of a node that holds a form control,
\* the control carries a pattern validator iff the configured pattern setting
\* evaluates to a string or a RegExp, and the validator is built from that value
C12_PatternFromPatternSetting ==
    (RunEnded(1) /\ formControl[1] # "none") =>
        ValidatorsOf(1, {"pattern"})
        = IF IsString(Evaluated(1, "pattern")) \/ IsRegExp(Evaluated(1, "pattern"))
          THEN {<<"pattern", Evaluated(1, "pattern")>>}
          ELSE {}

\* ngOnDestroy has run on node n after the node had created its component
DestroyedAfterCreation(n) == destroyed[n] /\ componentRef[n].created /\ componentRef[n].destroyed

\* C13: once ngOnDestroy has run on a node whose component was created, every
\* output subscription and the form value-change subscription are unsubscribed
\* and the component is destroyed; an emission of the component's output after
\* that evaluates no handler, and a change of the form value after that leaves
\* the view model as it was
C13_DestroyReleasesSubscriptions ==
    [][DestroyedAfterCreation(1)' =>
        /\ \A i \in 1..Len(outputsSubscriptions'[1]) : outputsSubscriptions'[1][i].closed
        /\ formSubscription'[1] # "active"
        /\ \A i \in 1..Len(groupSubscribers') : groupSubscribers'[i] # 1
        /\ (DestroyedAfterCreation(1) /\ lastOp'.op = "emit") => lastEmit'.evaluations = 0
        /\ (DestroyedAfterCreation(1) /\ lastOp'.op = "valueChange") =>
              (viewModel' = viewModel /\ viewModelOwner' = viewModelOwner)]_vars

\* the node was destroyed with an output subscription and a form subscription.
\* Its output has emitted since: the last emission evaluated nothing, which an
\* emission before ngOnDestroy, the handler being subscribed, does not.  The
\* value of its control was set since, in the last step (ngOnDestroy is a step
\* of its own): the control holds the new value and the view model the old one,
\* which a value change before ngOnDestroy would have replaced
C13_Witness ==
    /\ DestroyedAfterCreation(1)
    /\ Len(outputsSubscriptions[1]) > 0
    /\ formSubscription[1] = "closed"
    /\ lastEmit.node = 1 /\ lastEmit.output = "onSomething"
    /\ lastEmit.evaluations = 0
    /\ lastOp = [op |-> "valueChange", node |-> 1]
    /\ control[formControl[1]].value = Str("Ann")
    /\ At(viewModelOwner, <<Str("firstName")>>) = Str("Jhon")

\* C14: the lookup of a name returns the type passed by the last call of
\* registerComponent for that name that had a non-empty name and a type, and
\* nothing when there was no such call; hence a call with an empty name or
\* without a type, and a call for another name, leave the entry as it was
C14_LookupReturnsLastRegistered ==
    /\ \A name \in RegistryNames :
          getComponentByName(components, name)
          = IF name \in DOMAIN lastRegistered THEN lastRegistered[name] ELSE UNDEFINED
    /\ DOMAIN components = DOMAIN lastRegistered

\* C15: when a node with a type and a child item and the child have both
\* created their components, the child's component is inside the parent's
\* component, whichever of the two was created first
C15_ChildNestedInParent ==
    (componentRef[1].created /\ componentRef[2].created)
        => Inside(parentNode, Comp(2), Comp(1))

\* C16: over any interleaving of ngOnChanges runs on a node whose type resolves
\* to a component class, overlapping runs included, createComponent is called
\* on the view container at most once, and the outputs are subscribed and a
\* form control is created at most once
C16_SingleComponentPerNode ==
    \A n \in Nodes :
        (\A a \in createArgs[n] : IsType(a)) =>
            /\ counts[n].createComponent <= 1
            /\ counts[n].subscribe <= 1
            /\ counts[n].formControl <= 1

\* two runs of a node whose type was a promise have ended, after one
\* createComponent call, one subscription and one control, and a third is pending
C16_Witness ==
    /\ configuration[1].type = PromiseOf("P1")
    /\ finished[1] = "again"
    /\ Len(runs[1]) = 1
    /\ counts[1] = [createComponent |-> 1, subscribe |-> 1, formControl |-> 1]

\* C17: after ngOnDestroy a node never holds a live component or an active
\* subscription; in particular a run that was awaiting the type when
\* ngOnDestroy ran creates no component, subscribes to no output and adds no
\* control when it resumes
C17_NothingCreatedAfterDestroy ==
    \A n \in Nodes :
        destroyed[n] =>
            /\ ~(componentRef[n].created /\ ~componentRef[n].destroyed)
            /\ \A i \in 1..Len(outputsSubscriptions[n]) : outputsSubscriptions[n][i].closed
            /\ formSubscription[n] # "active"

\* C20: after ngOnDestroy of a node that added a form control to the form
\* group, the form group holds that control under no name
C20_DestroyRemovesControl ==
    \A n \in Nodes :
        (DestroyedAfterCreation(n) /\ formControl[n] # "none") =>
            \A k \in DOMAIN controls : controls[k] # formControl[n]

\* C18: two nodes of one tree hold controls under two different names of the
\* same form group and see the same view model; when the value of one control
\* changes, then after the handlers have run the owner's view model holds the
\* new value at the changed control's name and, at the other control's name,
\* the value it held before
C18_NoStaleOverwrite ==
    [][(/\ lastOp'.op = "valueChange"
        /\ viewModel[1] = viewModelOwner /\ viewModel[2] = viewModelOwner
        /\ formControl[1] # "none" /\ formControl[2] # "none"
        /\ ControlNameSetting(1) # ControlNameSetting(2))
       => LET changed == lastOp'.node
              other == 3 - changed
          IN  /\ At(viewModelOwner', <<ControlNameSetting(changed)>>)
                 = control'[ControlOf(changed)].value
              /\ At(viewModelOwner', <<ControlNameSetting(other)>>)
                 = At(viewModelOwner, <<ControlNameSetting(other)>>)]_vars

\* C19: whenever a node holds a form control, the form group holds that very
\* control under the node's control name, also when the name is taken already
C19_GroupHoldsNodeControl ==
    \A n \in Nodes :
        formControl[n] # "none" =>
            /\ ControlNameSetting(n) \in DOMAIN controls
            /\ controls[ControlNameSetting(n)] = formControl[n]

\* C21: when an ngOnChanges run ends on a node that has created its component
\* and the form group, the control name and the view model are all there, the
\* node holds a form control that is in the form group, also when they were
\* missing in the run that created the component
C21_ControlCreatedOnceAvailable ==
    (/\ RunEnded(1)
     /\ componentRef[1].created
     /\ formGroup[1]
     /\ Truthy(ControlNameSetting(1))
     /\ Truthy(At(viewModel[1], <<>>)))
    => /\ formControl[1] # "none"
       /\ \E k \in DOMAIN controls : controls[k] = formControl[1]

\* C22: for a node whose type is a name, (a) as long as every ngOnChanges run
\* found the name unregistered, no component is created, createComponent is not
\* called and no run ends with an error; (b) once the name has been registered
\* with a component class and the runs called since have ended, the node has
\* created the component of the registered class
C22_CreatedOnceRegistered ==
    \A n \in present :
        LET name == configuration[n].type
        IN  IsString(name) =>
              /\ seenRegistered[n] = UNDEFINED =>
                    /\ ~componentRef[n].created
                    /\ createArgs[n] = {}
                    /\ lastOp # [op |-> "threw", node |-> n]
              /\ (/\ RunEnded(n) /\ runs[n] = <<>>
                  /\ seenRegistered[n] = Mixed
                  /\ name \in DOMAIN lastRegistered
                  /\ name \notin overwritten
                  /\ IsType(lastRegistered[name]))
                 => /\ componentRef[n].created
                    /\ componentRef[n].type = lastRegistered[name]
                    /\ createArgs[n] = {lastRegistered[name]}

\* a run found the name unregistered and ended without a component; the name
\* was then registered with a class, and the next run has created its component
C22_Witness ==
    /\ RunEnded(1) /\ runs[1] = <<>>
    /\ finished[1] = "again"
    /\ seenRegistered[1] = Mixed
    /\ configuration[1].type \in DOMAIN lastRegistered
    /\ configuration[1].type \notin overwritten
    /\ componentRef[1].created
    /\ componentRef[1].type = Type("T1")
    /\ counts[1].createComponent = 1

\* C23: when the promise given as the type of a node has rejected, every run
\* of the node that has ended has rejected, and the node is as it was before:
\* no type is stored, createComponent was not called and no component exists,
\* there is no output subscription and no form control, and no input,
\* attribute, style, status or validator was applied
C23_RejectionLeavesNodeUntouched ==
    \A n \in present :
        (/\ IsPromise(configuration[n].type)
         /\ promiseState[configuration[n].type[2]] = REJECTED)
        => /\ lastOp.node = n => lastOp.op = "rejected"
           /\ component[n] = UNDEFINED
           /\ componentRef[n] = NoComponentRef
           /\ createArgs[n] = {}
           /\ counts[n] = NoCounts
           /\ outputsSubscriptions[n] = <<>>
           /\ formControl[n] = "none" /\ formSubscription[n] = "none"
           /\ ~formControlDirective[n]
           /\ controls = <<>> /\ control = <<>>
           /\ parentNode[Host(n)] # Detached

\* two runs awaited the promise, it rejected, and both runs have rejected
C23_Witness ==
    /\ promiseState["P1"] = REJECTED
    /\ lastOp = [op |-> "rejected", node |-> 1]
    /\ finished[1] = "again"
    /\ runs[1] = <<>>

\* no ngOnChanges run is pending and change detection has nothing to pass on
Quiescent ==
    \A n \in present : runs[n] = <<>> /\ boundViewModel[n] = BoundViewModel(n)

\* the work left to the framework: a component still to create, a binding with
\* a new object to hand down (node 1's run hands node 2 one), a pending run
\* before (2) or after (1) its await
Rank ==
    LET Weight(n) ==
            (IF componentRef[n].created THEN 0 ELSE 10)
            + (IF boundViewModel[n] # BoundViewModel(n) THEN (IF n = 1 THEN 6 ELSE 3) ELSE 0)
            + 2 * Cardinality({i \in 1..Len(runs[n]) : runs[n][i].pc = "load"})
            + Cardinality({i \in 1..Len(runs[n]) : runs[n][i].pc = "cont"})
    IN  Weight(1) + Weight(2)

\* some step of the framework can be taken: a pending run resumes, or change
\* detection calls ngOnChanges
CanStep ==
    \/ \E n \in Nodes : runs[n] # <<>>
    \/ \E n \in Nodes : boundViewModel[n] # BoundViewModel(n) /\ (n = 2 => Rendered)

\* C24: an ngOnChanges run of a node that holds a form control changes no
\* control's value and sets no view model, and every step that follows a
\* value change (a call of ngOnChanges by change detection, a resumed run)
\* brings the system nearer to the state with no pending handler, which is
\* the only state where it stops: the cascade of a value change is finite
C24_ValueChangeCascadeEnds ==
    [][/\ (/\ lastOp'.op \in {"done", "threw"}
           /\ formControl[lastOp'.node] # "none")
          => /\ viewModelOwner' = viewModelOwner
             /\ viewModel' = viewModel
             /\ boundViewModel' = boundViewModel
             /\ \A c \in DOMAIN control : control'[c].value = control[c].value
       /\ lastOp'.op # "valueChange" => Rank' < Rank
       /\ Rank' >= 0
       /\ Quiescent' <=> ~CanStep']_vars

\* the value of node 1's control was emptied, its handlers wrote the view
\* model, the runs that followed enabled the control, and nothing is pending
C24_Witness ==
    /\ Quiescent
    /\ formControl[1] = "c1"
    /\ control["c1"].value = <<>>
    /\ At(viewModelOwner, <<Str("firstName")>>) = <<>>
    /\ RunEnded(1) \/ RunEnded(2)
    /\ finished[1] = "again"
    /\ variant = "lib" => ~control["c1"].disabled

\* the two cases in which a value is an expression to evaluate: a string that
\* mentions $vm while the view model is neither null nor undefined, or that
\* mentions $event while the event is neither null nor undefined
IsExpressionFor(value, vm, event) ==
    /\ IsString(value)
    /\ \/ Includes(value, "$vm") /\ At(vm, <<>>) \notin {NULL, UNDEFINED}
       \/ Includes(value, "$event") /\ event \notin {NULL, UNDEFINED}

\* C25: evaluateExpression returns its value unchanged unless the value is a
\* string that mentions $vm while the view model is non-null or $event while
\* the event is non-null, and evaluates it in exactly those cases: a run sets
\* each input to its configured value itself outside those cases and to the
\* value of the expression within them, and an emission has its handler
\* evaluated only within them
C25_EvaluatedOnlyWhenReferenced ==
    [][/\ \A n \in present :
             (lastOp'.op = "done" /\ lastOp'.node = n /\ componentRef'[n].created)
             => \A k \in DOMAIN configuration[n].inputs :
                   componentRef'[n].inputs[k] =
                      IF IsExpressionFor(configuration[n].inputs[k], viewModel[n], UNDEFINED)
                      THEN Eval(configuration[n].inputs[k], viewModel[n], UNDEFINED)
                      ELSE configuration[n].inputs[k]
       /\ (lastOp'.op = "emit" /\ outputsSubscriptions[lastEmit'.node] # <<>>)
          => LET n == lastEmit'.node
                 handler == configuration[n].outputs[lastEmit'.output]
             IN  lastEmit'.evals =
                    IF IsExpressionFor(handler, viewModel[n], lastEmit'.event)
                    THEN 1 ELSE 0]_vars

\* a run ended with an undefined view model: the literal input and the $vm
\* expression were both passed as they are; then the component emitted null
\* and the handler, a string that mentions only $event, was not evaluated
C25_Witness ==
    /\ lastOp = [op |-> "emit", node |-> 1]
    /\ lastEmit.event = NULL
    /\ lastEmit.evaluations = 1
    /\ lastEmit.evals = 0
    /\ configuration[1].outputs["onSomething"] = LogExpr
    /\ viewModel[1] = Leaf(UNDEFINED)
    /\ componentRef[1].inputs["hello"] = Str("world")
    /\ componentRef[1].inputs["text"] = ReadExpr("message")


\* C26: in the attribute-based version, at the end of every ngOnChanges run of
\* a node that holds a form control, the control's min, max, required, email,
\* maxlength and minlength validators are exactly those that the attributes
\* select against the current view model: one whose attribute is unchanged
\* stays installed when another changes, one that no longer qualifies is gone
C26_ValidatorsFollowAttributes ==
    (RunEnded(1) /\ variant = "attr" /\ formControl[1] # "none") =>
        ValidatorsOf(1, {"min", "max", "required", "email", "maxLength", "minLength"})
        = {<<k, Evaluated(1, k)>> : k \in
             {j \in {"min", "max"} : IsNumber(Evaluated(1, j))}
             \cup {j \in {"required", "email"} : Evaluated(1, j) = Bool(TRUE)}
             \cup {j \in {"maxLength", "minLength"} : GreaterThanZero(Evaluated(1, j))}}

====
